---- MODULE Spec2Model ----
(***************************************************************************)
(* Model of the two tool handlers of the enterprise-standards server       *)
(* (src/src/server.py):                                                    *)
(*   assess_code_for_enterprise_standards(code)                            *)
(*   get_boilerplate_template(query)                                       *)
(* src/src/template_tools.py holds a second copy of                        *)
(* get_boilerplate_template with the same statements.                      *)
(*                                                                         *)
(* Python strings are sequences of one-character strings, so that strip(), *)
(* lower(), endswith(), `in` and the f-strings are computed, not assumed.  *)
(* Python's None is the value None below, which is no string.              *)
(*                                                                         *)
(* Each invocation is a frame (inv[i]) that walks through the statements   *)
(* of its handler; its position is inv[i].pc.  What the handler does to    *)
(* the outside world is recorded in chat_requests (chat requests sent),    *)
(* opened_files (paths given to open()) and clients (the httpx transport   *)
(* clients and who called aclose() on them).  The environment (directory   *)
(* listing, environment variables, file contents, the remote model, and    *)
(* which calls raise) is chosen nondeterministically at the statement that *)
(* reads it.  Only exceptions derived from Exception are modelled;         *)
(* task cancellation (a BaseException) is not.                             *)
(***************************************************************************)
EXTENDS Naturals, Sequences, FiniteSets

\* ------------------------------------------------------------------ bounds

\* Number of invocation frames.
NumInvocations == 2

\* Longest directory listing os.listdir may return.
MaxListing == 3

Invs == 1..NumInvocations

\* ------------------------------------------------------------ Python values

None == <<"None">>

\* Python truthiness of an Optional[str]: None and "" are falsy.
Truthy(s) == s # None /\ s # << >>

Whitespace == {" ", "\n", "\t", "\r"}

UpperCase == <<"A","B","C","D","E","F","G","H","I","J","K","L","M",
               "N","O","P","Q","R","S","T","U","V","W","X","Y","Z">>

LowerCase == <<"a","b","c","d","e","f","g","h","i","j","k","l","m",
               "n","o","p","q","r","s","t","u","v","w","x","y","z">>

\* The lower-case letter of each upper-case letter.
LowerOf ==
    [c \in {UpperCase[k] : k \in 1..Len(UpperCase)} |->
        LowerCase[CHOOSE k \in 1..Len(UpperCase) : UpperCase[k] = c]]

LowerChar(c) == IF c \in DOMAIN LowerOf THEN LowerOf[c] ELSE c

\* str.lower()
RECURSIVE Lower(_)
Lower(s) == IF s = << >> THEN << >> ELSE <<LowerChar(Head(s))>> \o Lower(Tail(s))

\* str.strip(): drop leading and trailing whitespace.
Strip(s) ==
    LET keep == {k \in 1..Len(s) : s[k] \notin Whitespace}
    IN  IF keep = {} THEN << >>
        ELSE LET lo == CHOOSE k \in keep : \A j \in keep : k <= j
                 hi == CHOOSE k \in keep : \A j \in keep : j <= k
             IN  SubSeq(s, lo, hi)

\* needle in hay (substring test)
Contains(hay, needle) ==
    \E k \in 0..Len(hay) :
        /\ k + Len(needle) <= Len(hay)
        /\ \A j \in 1..Len(needle) : hay[k + j] = needle[j]

\* str.endswith(suffix)
EndsWith(s, suffix) ==
    /\ Len(suffix) <= Len(s)
    /\ SubSeq(s, Len(s) - Len(suffix) + 1, Len(s)) = suffix

\* x in list
InList(x, list) == \E k \in 1..Len(list) : list[k] = x

\* os.path.join(a, b) on POSIX: an absolute b replaces a.
PathJoin(a, b) ==
    IF Len(b) > 0 /\ b[1] = "/" THEN b
    ELSE IF Len(a) = 0 \/ a[Len(a)] = "/" THEN a \o b
    ELSE a \o <<"/">> \o b

\* str.format(**kwargs) with named fields only: "{name}" is replaced by
\* kwargs[name] (KeyError when absent, IndexError for "{}"), "{{" and "}}"
\* are literal braces, an unmatched brace is a ValueError.  The substituted
\* text is not parsed again.
RECURSIVE FormatFrom(_, _, _)
FormatFrom(t, k, kwargs) ==
    IF k > Len(t) THEN [ok |-> TRUE, text |-> << >>]
    ELSE IF t[k] = "{" THEN
        IF k < Len(t) /\ t[k + 1] = "{"
        THEN LET rest == FormatFrom(t, k + 2, kwargs)
             IN  IF rest.ok THEN [ok |-> TRUE, text |-> <<"{">> \o rest.text] ELSE rest
        ELSE LET closing == {j \in (k + 1)..Len(t) : t[j] = "}"}
             IN  IF closing = {} THEN [ok |-> FALSE, error |-> "ValueError"]
                 ELSE LET j == CHOOSE c \in closing : \A d \in closing : c <= d
                          name == SubSeq(t, k + 1, j - 1)
                      IN  IF name = << >> THEN [ok |-> FALSE, error |-> "IndexError"]
                          ELSE IF name \notin DOMAIN kwargs
                          THEN [ok |-> FALSE, error |-> "KeyError"]
                          ELSE LET rest == FormatFrom(t, j + 1, kwargs)
                               IN  IF rest.ok
                                   THEN [ok |-> TRUE, text |-> kwargs[name] \o rest.text]
                                   ELSE rest
    ELSE IF t[k] = "}" THEN
        IF k < Len(t) /\ t[k + 1] = "}"
        THEN LET rest == FormatFrom(t, k + 2, kwargs)
             IN  IF rest.ok THEN [ok |-> TRUE, text |-> <<"}">> \o rest.text] ELSE rest
        ELSE [ok |-> FALSE, error |-> "ValueError"]
    ELSE LET rest == FormatFrom(t, k + 1, kwargs)
         IN  IF rest.ok THEN [ok |-> TRUE, text |-> <<t[k]>> \o rest.text] ELSE rest

Format(t, kwargs) == FormatFrom(t, 1, kwargs)

\* str(e) of an exception, by its type.
ExceptionText(e) ==
    CASE e = "PermissionError"    -> <<"P","e","r","m","i","s","s","i","o","n"," ","d","e","n",
                                       "i","e","d">> (* "Permission denied" *)
      [] e = "NotADirectoryError" -> <<"N","o","t"," ","a"," ","d","i","r","e","c","t","o","r",
                                       "y">> (* "Not a directory" *)
      [] e = "FileNotFoundError"  -> <<"N","o"," ","s","u","c","h"," ","f","i","l","e">> (* "No such file" *)
      [] e = "ConnectError"       -> <<"c","o","n","n","e","c","t"," ","f","a","i","l","e","d">> (* "connect failed" *)
      [] e = "OpenAIError"        -> <<"m","i","s","s","i","n","g"," ","c","r","e","d","e","n",
                                       "t","i","a","l","s">> (* "missing credentials" *)
      [] e = "ServiceResponseException" -> <<"s","e","r","v","i","c","e"," ","f","a","i","l","e","d">> (* "service failed" *)
      [] e = "CloseError"         -> <<"c","l","o","s","e"," ","f","a","i","l","e","d">> (* "close failed" *)
      [] OTHER                    -> <<"e","r","r","o","r">> (* "error" *)

\* ------------------------------------------------ constants of the program

\* templates_dir and the directory of server.py (any two fixed directories).
templates_dir == <<"/","s","r","v","/","t","e","m","p","l","a","t","e","s">> (* "/srv/templates" *)

current_dir == <<"/","s","r","v","/","s","r","c">> (* "/srv/src" *)

webapp_bicep == <<"a","z","u","r","e","-","w","e","b","a","p","p",".","b","i","c","e","p">> (* "azure-webapp.bicep" *)

vm_bicep == <<"a","z","u","r","e","-","v","m",".","b","i","c","e","p">> (* "azure-vm.bicep" *)

aks_bicep == <<"a","z","u","r","e","-","a","k","s",".","b","i","c","e","p">> (* "azure-aks.bicep" *)

bicep_suffix == <<".","b","i","c","e","p">> (* ".bicep" *)

endpoint_placeholder == <<"y","o","u","r","_","e","n","d","p","o","i","n","t","_","h","e","r","e">> (* "your_endpoint_here" *)

api_key_placeholder == <<"y","o","u","r","_","a","p","i","_","k","e","y","_","h","e","r","e">> (* "your_api_key_here" *)

web_keywords ==
    <<<<"w","e","b">>,
      <<"w","e","b","a","p","p">> (* "webapp" *),
      <<"a","p","p">>,
      <<"w","e","b","s","i","t","e">> (* "website" *),
      <<"a","p","i">>,
      <<"h","t","t","p">> (* "http" *)>>

\* Mutant of vm_keywords: the two-word phrase is missing.
vm_keywords_single_words ==
    <<<<"v","m">>,
      <<"s","e","r","v","e","r">> (* "server" *),
      <<"c","o","m","p","u","t","e">> (* "compute" *),
      <<"l","i","n","u","x">> (* "linux" *)>>

vm_keywords ==
    <<<<"v","m">>,
      <<"v","i","r","t","u","a","l"," ","m","a","c","h","i","n","e">> (* "virtual machine" *),
      <<"s","e","r","v","e","r">> (* "server" *),
      <<"c","o","m","p","u","t","e">> (* "compute" *),
      <<"l","i","n","u","x">> (* "linux" *)>>

aks_keywords ==
    <<<<"a","k","s">>,
      <<"k","u","b","e","r","n","e","t","e","s">> (* "kubernetes" *),
      <<"k","8","s">>,
      <<"c","o","n","t","a","i","n","e","r">> (* "container" *),
      <<"c","l","u","s","t","e","r">> (* "cluster" *),
      <<"m","i","c","r","o","s","e","r","v","i","c","e">> (* "microservice" *)>>

\* template_descriptions.get(filename, 'Azure infrastructure template'); the
\* description texts are opaque here (nothing inspects their characters).
template_description(filename) ==
    CASE filename = webapp_bicep -> "Azure Web App with App Service Plan"
      [] filename = vm_bicep     -> "Azure Virtual Machine"
      [] filename = aks_bicep    -> "Azure Kubernetes Service (AKS) cluster"
      [] OTHER                   -> "Azure infrastructure template"

\* prompt_files, in the order the dict is iterated.
prompt_keys ==
    <<<<"s","y","s","t","e","m","_","p","r","o","m","p","t">> (* "system_prompt" *),
      <<"n","a","m","i","n","g","_","c","o","n","v","e","n","t","i","o","n">> (* "naming_convention" *),
      <<"s","h","a","r","e","d","_","r","e","s","o","u","r","c","e","s">> (* "shared_resources" *),
      <<"s","e","c","u","r","i","t","y","_","s","t","a","n","d","a","r","d","s">> (* "security_standards" *)>>

prompt_filenames ==
    <<<<"s","y","s","t","e","m","_","p","r","o","m","p","t",".","m","d">> (* "system_prompt.md" *),
      <<"n","a","m","i","n","g","_","c","o","n","v","e","n","t","i","o","n",".","m","d">> (* "naming_convention.md" *),
      <<"s","h","a","r","e","d","_","r","e","s","o","u","r","c","e","s",".","m","d">> (* "shared_resources.md" *),
      <<"s","e","c","u","r","i","t","y","_","s","t","a","n","d","a","r","d","s",".","m","d">> (* "security_standards.md" *)>>

no_templates_message ==
    <<"N","o"," ","t","e","m","p","l","a","t","e","s"," ","f","o","u","n","d","."," ","P","l","e",
      "a","s","e"," ","e","n","s","u","r","e"," ","t","h","e"," ","t","e","m","p","l","a","t","e",
      "s"," ","d","i","r","e","c","t","o","r","y"," ","c","o","n","t","a","i","n","s"," ",".","b",
      "i","c","e","p"," ","f","i","l","e","s",".">> (* "No templates found. Please ensure the templates directory contains .bicep files." *)

\* Mutant of selected_message: the contents are left out.
selected_message_header_only(selected_template, template_content) ==
    <<"S","e","l","e","c","t","e","d"," ","t","e","m","p","l","a","t","e",":"," ">> (* "Selected template: " *) \o selected_template
        \o <<"\n","\n">>

\* f"Selected template: {selected_template}\n\n{template_content}"
selected_message(selected_template, template_content) ==
    <<"S","e","l","e","c","t","e","d"," ","t","e","m","p","l","a","t","e",":"," ">> (* "Selected template: " *)
        \o selected_template \o <<"\n","\n">> \o template_content

\* f"Error processing template request: {str(e)}"
error_message(e) == <<"E","r","r","o","r"," ","p","r","o","c","e","s","s","i","n","g"," ","t","e",
                      "m","p","l","a","t","e"," ","r","e","q","u","e","s","t",":"," ">> (* "Error processing template request: " *) \o ExceptionText(e)

\* f"Select the best template for: {query}"
select_user_message(query) == <<"S","e","l","e","c","t"," ","t","h","e"," ","b","e","s","t"," ",
                                "t","e","m","p","l","a","t","e"," ","f","o","r",":"," ">> (* "Select the best template for: " *) \o query

\* The system prompt of the template selection: the fixed instructions around
\* the list "- <filename>: <description>" of the catalog and the query.  The
\* instruction text is kept as its two variable parts.
select_system_prompt(available_templates, query) ==
    [template_list |-> [k \in 1..Len(available_templates) |->
                            <<available_templates[k],
                              template_description(available_templates[k])>>],
     query |-> query]

\* ------------------------------------------------------------ environment

\* Names a directory entry of templates_dir may have.
DirEntries ==
    {webapp_bicep,
     vm_bicep,
     aks_bicep,
     <<"n","e","t",".","b","i","c","e","p">> (* "net.bicep" *),
     <<"n","o","t","e","s",".","m","d">> (* "notes.md" *)}

\* What os.listdir may return: the entries in any order, none twice.
Listings ==
    {l \in UNION {[1..n -> DirEntries] : n \in 0..MaxListing} :
        \A a, b \in 1..Len(l) : a # b => l[a] # l[b]}

\* Text of the file at a path (distinct per template, so that reading the
\* wrong file shows).
FileText(path) ==
    CASE path = PathJoin(templates_dir, webapp_bicep) -> <<"/","/"," ","w","e","b">> (* "// web" *)
      [] path = PathJoin(templates_dir, vm_bicep)     -> <<"/","/"," ","v","m">> (* "// vm" *)
      [] path = PathJoin(templates_dir, aks_bicep)    -> <<"/","/"," ","a","k","s">> (* "// aks" *)
      [] path = PathJoin(templates_dir, <<"n","e","t",".","b","i","c","e","p">> (* "net.bicep" *))
                                                      -> <<"/","/"," ","n","e","t">> (* "// net" *)
      [] OTHER                                        -> <<"s","e","c","r","e","t">> (* "secret" *)

\* Values os.getenv may give for the two variables.
EndpointValues ==
    {None,
     << >>,
     endpoint_placeholder,
     <<"h","t","t","p","s",":","/","/","e">> (* "https://e" *)}

ApiKeyValues ==
    {None,
     << >>,
     api_key_placeholder,
     <<"k","1">>}

\* Queries a caller may send.
Queries ==
    {<<"I"," ","n","e","e","d"," ","a"," ","w","e","b"," ","a","p","p","l","i","c","a","t","i",
       "o","n">> (* "I need a web application" *),
     <<"I"," ","n","e","e","d"," ","a"," ","k","u","b","e","r","n","e","t","e","s"," ","c","l",
       "u","s","t","e","r">> (* "I need a kubernetes cluster" *),
     <<"K","U","B","E","R","N","E","T","E","S">> (* "KUBERNETES" *),
     <<"a"," ","V","i","r","t","u","a","l"," ","M","a","c","h","i","n","e">> (* "a Virtual Machine" *),
     <<"k","u","b","e","r","n","e","t","e","s"," ","a","p","i"," ","g","a","t","e","w","a","y">> (* "kubernetes api gateway" *),
     <<"v","i","r","t","u","a","l"," ","m","a","c","h","i","n","e"," ","f","o","r"," ","a"," ",
       "w","e","b","s","i","t","e">> (* "virtual machine for a website" *),
     <<"s","t","o","r","a","g","e"," ","a","c","c","o","u","n","t">> (* "storage account" *),
     << >>}

\* Texts the model may answer the template selection with.
SelectionAnswers ==
    {webapp_bicep,
     vm_bicep,
     aks_bicep,
     <<" ","a","z","u","r","e","-","v","m",".","b","i","c","e","p","\n">> (* " azure-vm.bicep\n" *),
     <<"A","z","u","r","e","-","V","M",".","b","i","c","e","p">> (* "Azure-VM.bicep" *),
     <<"n","o","t","e","s",".","m","d">> (* "notes.md" *),
     <<"/","e","t","c","/","p","a","s","s","w","d">> (* "/etc/passwd" *),
     <<"I"," ","s","u","g","g","e","s","t"," ","a","z","u","r","e","-","w","e","b","a","p","p",
       ".","b","i","c","e","p">> (* "I suggest azure-webapp.bicep" *),
     << >>}

\* Code snippets a caller may send.
Codes ==
    {<<"x"," ","="," ","1">> (* "x = 1" *),
     <<" ","r","e","s","o","u","r","c","e"," ","r"," ","{","}","\n">> (* " resource r {}\n" *),
     << >>}

\* Texts the model may answer an assessment with.
AssessmentAnswers ==
    {<<"C","o","m","p","l","i","a","n","t">> (* "Compliant" *),
     <<" ","n","o","t"," ","c","o","m","p","l","i","a","n","t"," ","\n">> (* " not compliant \n" *),
     << >>}

\* Contents system_prompt.md may have: the three fields, an unknown field,
\* escaped braces only.
SystemPromptTexts ==
    {<<"S"," ","{","n","a","m","i","n","g","_","c","o","n","v","e","n","t","i","o","n","}","{",
       "s","h","a","r","e","d","_","r","e","s","o","u","r","c","e","s","}","{","s","e","c","u",
       "r","i","t","y","_","s","t","a","n","d","a","r","d","s","}">> (* "S {naming_convention}{shared_resources}{security_standards}" *),
     <<"S"," ","{","o","w","n","e","r","}">> (* "S {owner}" *),
     <<"{","{","S","}","}">> (* "{{S}}" *)}

\* Contents of the other three policy documents.
PolicyText(k) ==
    CASE k = 2 -> <<"n","{","x","}">> (* "n{x}" *)
      [] k = 3 -> <<"r">>
      [] k = 4 -> <<"s">>

\* Exception types the calls may raise.
ListDirErrors == {"NotADirectoryError"}

HttpClientErrors == {"ConnectError"}

ClientSetupErrors == {"OpenAIError"}

ModelCallErrors == {"ServiceResponseException"}

CloseErrors == {"CloseError"}

OpenErrors == {"FileNotFoundError", "PermissionError"}

\* ------------------------------------------------------------------ state

VARIABLES
    inv,            \* inv[i]: the frame of invocation i (its local variables)
    chat_requests,  \* chat_requests[i]: the chat requests invocation i has sent
    opened_files,   \* opened_files[i]: the paths invocation i has given to open()
    clients         \* clients[c]: who created transport client c, who called aclose()

vars == <<inv, chat_requests, opened_files, clients>>

\* A frame before its handler is called.  http_client 0 is "no client";
\* exc is the exception in flight ("none": none) and context the exception
\* that was in flight when exc was raised (Python's __context__).  listing
\* is what os.listdir returned (None for an absent directory), kept until
\* the loop over it is left behind; config_read records that os.getenv was
\* called.
IdleFrame ==
    [pc |-> "idle", handler |-> "none", query |-> None, code |-> None,
     listing |-> None, available_templates |-> << >>, config_read |-> FALSE,
     azure_endpoint |-> None, azure_key |-> None, selected_template |-> None,
     http_client |-> 0, content |-> None, exc |-> "none", context |-> "none",
     prompts |-> << >>,
     system_prompt |-> None, template_content |-> None, ret |-> None,
     outcome |-> "running", value |-> None, raised |-> "none"]

NoClient == [creator |-> 0, closers |-> << >>]

Init ==
    /\ inv = [i \in Invs |-> IdleFrame]
    /\ chat_requests = [i \in Invs |-> << >>]
    /\ opened_files = [i \in Invs |-> << >>]
    /\ clients = [c \in Invs |-> NoClient]

\* inv with frame i changed to f
Frame(i, f) == [inv EXCEPT ![i] = f]

\* ------------------------------------------- get_boilerplate_template

\* The caller invokes the tool with a query.
CallTemplate(i, q) ==
    /\ inv[i].pc = "idle"
    /\ inv' = Frame(i, [IdleFrame EXCEPT !.pc = "t_scan", !.handler = "template",
                                         !.query = q])
    /\ UNCHANGED <<chat_requests, opened_files, clients>>

\* Mutant of BicepFiles: the extension is not checked.
AllFiles(listing) == listing

\* [f for f in listing if f.endswith('.bicep')], in listing order
BicepFiles(listing) == SelectSeq(listing, LAMBDA f : EndsWith(f, bicep_suffix))

\* The directory does not exist: the catalog stays empty.
ScanAbsent(i) ==
    /\ inv[i].pc = "t_scan"
    /\ inv' = Frame(i, [inv[i] EXCEPT !.pc = "t_check_empty",
                                      !.available_templates = << >>])
    /\ UNCHANGED <<chat_requests, opened_files, clients>>

\* The directory exists and os.listdir returns `listing`.
ScanListing(i, listing) ==
    /\ inv[i].pc = "t_scan"
    /\ inv' = Frame(i, [inv[i] EXCEPT !.pc = "t_check_empty",
                                      !.listing = listing,
                                      !.available_templates = BicepFiles(listing)])
    /\ UNCHANGED <<chat_requests, opened_files, clients>>

\* os.listdir raises.
ScanFails(i, e) ==
    /\ inv[i].pc = "t_scan"
    /\ inv' = Frame(i, [inv[i] EXCEPT !.pc = "t_except", !.exc = e])
    /\ UNCHANGED <<chat_requests, opened_files, clients>>

\* if not available_templates: return "No templates found. ..."
CheckEmpty(i) ==
    /\ inv[i].pc = "t_check_empty"
    /\ inv' = Frame(i,
                IF inv[i].available_templates = << >>
                THEN [inv[i] EXCEPT !.pc = "done", !.listing = None,
                                    !.outcome = "returned",
                                    !.value = no_templates_message]
                ELSE [inv[i] EXCEPT !.pc = "t_config", !.listing = None])
    /\ UNCHANGED <<chat_requests, opened_files, clients>>

\* Mutant of Configured: the placeholder values count as configured.
ConfiguredIgnoringPlaceholders(azure_endpoint, azure_key) ==
    Truthy(azure_endpoint) /\ Truthy(azure_key)

\* The condition under which the model is asked.
Configured(azure_endpoint, azure_key) ==
    /\ Truthy(azure_endpoint)
    /\ Truthy(azure_key)
    /\ azure_endpoint # endpoint_placeholder
    /\ azure_key # api_key_placeholder

\* os.getenv of the endpoint and the key; selected_template = None.
ReadConfig(i, endpoint, key) ==
    /\ inv[i].pc = "t_config"
    /\ inv' = Frame(i, [inv[i] EXCEPT
                          !.pc = IF Configured(endpoint, key) THEN "t_http"
                                 ELSE "t_keyword",
                          !.config_read = TRUE,
                          !.azure_endpoint = endpoint,
                          !.azure_key = key,
                          !.selected_template = None])
    /\ UNCHANGED <<chat_requests, opened_files, clients>>

\* Mutant of NewClient: one module-level client serves every invocation.
NewClientShared(i) == CHOOSE c \in Invs : \A d \in Invs : c <= d

\* The transport client httpx.AsyncClient(verify=False) constructs in frame i.
NewClient(i) == i

\* http_client = httpx.AsyncClient(verify=False), before the inner try.
CreateHttpClient(i) ==
    /\ inv[i].pc = "t_http"
    /\ inv' = Frame(i, [inv[i] EXCEPT !.pc = "t_setup", !.http_client = NewClient(i)])
    /\ clients' = [clients EXCEPT ![NewClient(i)] = [creator |-> i, closers |-> << >>]]
    /\ UNCHANGED <<chat_requests, opened_files>>

CreateHttpClientFails(i, e) ==
    /\ inv[i].pc = "t_http"
    /\ inv' = Frame(i, [inv[i] EXCEPT !.pc = "t_except", !.exc = e])
    /\ UNCHANGED <<chat_requests, opened_files, clients>>

\* AsyncAzureOpenAI(...), AzureChatCompletion(...), kernel.add_service(...)
SetupClient(i) ==
    /\ inv[i].pc = "t_setup"
    /\ inv' = Frame(i, [inv[i] EXCEPT !.pc = "t_send"])
    /\ UNCHANGED <<chat_requests, opened_files, clients>>

\* Mutant of SetupClientFails: the set-up is outside the try/finally.
SetupClientFailsUnclosed(i, e) ==
    /\ inv[i].pc = "t_setup"
    /\ inv' = Frame(i, [inv[i] EXCEPT !.pc = "t_except", !.exc = e])
    /\ UNCHANGED <<chat_requests, opened_files, clients>>

SetupClientFails(i, e) ==
    /\ inv[i].pc = "t_setup"
    /\ inv' = Frame(i, [inv[i] EXCEPT !.pc = "t_finally", !.exc = e])
    /\ UNCHANGED <<chat_requests, opened_files, clients>>

\* Build the chat history and send it: get_chat_message_content is awaited.
SendSelection(i) ==
    /\ inv[i].pc = "t_send"
    /\ chat_requests' = [chat_requests EXCEPT ![i] = Append(@,
           [client |-> inv[i].http_client,
            system |-> select_system_prompt(inv[i].available_templates, inv[i].query),
            user |-> select_user_message(inv[i].query)])]
    /\ inv' = Frame(i, [inv[i] EXCEPT !.pc = "t_await"])
    /\ UNCHANGED <<opened_files, clients>>

\* The model answers: result.content is `answer`.
ReceiveSelection(i, answer) ==
    /\ inv[i].pc = "t_await"
    /\ inv' = Frame(i, [inv[i] EXCEPT !.pc = "t_validate", !.content = answer])
    /\ UNCHANGED <<chat_requests, opened_files, clients>>

\* The model call raises.
SelectionFails(i, e) ==
    /\ inv[i].pc = "t_await"
    /\ inv' = Frame(i, [inv[i] EXCEPT !.pc = "t_finally", !.exc = e])
    /\ UNCHANGED <<chat_requests, opened_files, clients>>

\* Mutant of ValidatedAnswer: the membership test ignores letter case.
ValidatedAnswerIgnoringCase(content, available_templates) ==
    LET selected_template == Strip(content)
    IN  IF ~InList(Lower(selected_template),
                   [k \in 1..Len(available_templates) |-> Lower(available_templates[k])])
        THEN None
        ELSE selected_template

\* selected_template = result.content.strip(), None when not in the catalog
ValidatedAnswer(content, available_templates) ==
    LET selected_template == Strip(content)
    IN  IF ~InList(selected_template, available_templates) THEN None
        ELSE selected_template

ValidateSelection(i) ==
    /\ inv[i].pc = "t_validate"
    /\ inv' = Frame(i, [inv[i] EXCEPT
                          !.pc = "t_finally",
                          !.selected_template =
                              ValidatedAnswer(inv[i].content, inv[i].available_templates)])
    /\ UNCHANGED <<chat_requests, opened_files, clients>>

\* clients after frame i has called aclose() on its http_client
Closed(i) == [clients EXCEPT ![inv[i].http_client].closers = Append(@, i)]

\* finally: await http_client.aclose(); then the exception in flight, if
\* any, goes on to the outer handler.
CloseClient(i) ==
    /\ inv[i].pc = "t_finally"
    /\ clients' = Closed(i)
    /\ inv' = Frame(i, [inv[i] EXCEPT
                          !.pc = IF inv[i].exc # "none" THEN "t_except" ELSE "t_keyword"])
    /\ UNCHANGED <<chat_requests, opened_files>>

\* aclose() itself raises.
CloseClientFails(i, e) ==
    /\ inv[i].pc = "t_finally"
    /\ clients' = Closed(i)
    /\ inv' = Frame(i, [inv[i] EXCEPT !.pc = "t_except", !.exc = e,
                                      !.context = inv[i].exc])
    /\ UNCHANGED <<chat_requests, opened_files>>

\* any(keyword in query_lower for keyword in keywords)
AnyKeyword(query_lower, keywords) ==
    \E k \in 1..Len(keywords) : Contains(query_lower, keywords[k])

\* Mutant of KeywordMatch: the query is not lower-cased.
KeywordMatchCaseSensitive(query, available_templates) ==
    IF AnyKeyword(query, web_keywords) THEN webapp_bicep
    ELSE IF AnyKeyword(query, vm_keywords) THEN vm_bicep
    ELSE IF AnyKeyword(query, aks_keywords) THEN aks_bicep
    ELSE available_templates[1]

\* The if/elif chain of the keyword matching.
KeywordMatch(query, available_templates) ==
    LET query_lower == Lower(query)
    IN  IF AnyKeyword(query_lower, web_keywords) THEN webapp_bicep
        ELSE IF AnyKeyword(query_lower, vm_keywords) THEN vm_bicep
        ELSE IF AnyKeyword(query_lower, aks_keywords) THEN aks_bicep
        ELSE available_templates[1]

\* Mutant of KeywordFallback: the keyword matching runs whether or not the
\* model's answer was accepted.
KeywordFallbackAlways(i) ==
    /\ inv[i].pc = "t_keyword"
    /\ inv' = Frame(i, [inv[i] EXCEPT
                          !.pc = "t_revalidate",
                          !.selected_template =
                              KeywordMatch(inv[i].query, inv[i].available_templates)])
    /\ UNCHANGED <<chat_requests, opened_files, clients>>

\* if not selected_template: <keyword matching>
KeywordFallback(i) ==
    /\ inv[i].pc = "t_keyword"
    /\ inv' = Frame(i, [inv[i] EXCEPT
                          !.pc = "t_revalidate",
                          !.selected_template =
                              IF ~Truthy(inv[i].selected_template)
                              THEN KeywordMatch(inv[i].query, inv[i].available_templates)
                              ELSE inv[i].selected_template])
    /\ UNCHANGED <<chat_requests, opened_files, clients>>

\* Mutant of Revalidated: an invalid choice is replaced by the last entry.
RevalidatedLast(selected_template, available_templates) ==
    IF ~InList(selected_template, available_templates)
    THEN available_templates[Len(available_templates)]
    ELSE selected_template

\* Mutant of Revalidated: the second membership test is missing.
RevalidatedSkipped(selected_template, available_templates) == selected_template

\* if selected_template not in available_templates: take the first entry
Revalidated(selected_template, available_templates) ==
    IF ~InList(selected_template, available_templates) THEN available_templates[1]
    ELSE selected_template

Revalidate(i) ==
    /\ inv[i].pc = "t_revalidate"
    /\ inv' = Frame(i, [inv[i] EXCEPT
                          !.pc = "t_open",
                          !.selected_template =
                              Revalidated(inv[i].selected_template,
                                          inv[i].available_templates)])
    /\ UNCHANGED <<chat_requests, opened_files, clients>>

\* The path given to open().
template_path(selected_template) == PathJoin(templates_dir, selected_template)

\* with open(template_path, 'r') as file: template_content = file.read()
OpenTemplate(i) ==
    /\ inv[i].pc = "t_open"
    /\ opened_files' = [opened_files EXCEPT
                          ![i] = Append(@, template_path(inv[i].selected_template))]
    /\ inv' = Frame(i, [inv[i] EXCEPT
                          !.pc = "t_return",
                          !.template_content =
                              FileText(template_path(inv[i].selected_template))])
    /\ UNCHANGED <<chat_requests, clients>>

OpenTemplateFails(i, e) ==
    /\ inv[i].pc = "t_open"
    /\ opened_files' = [opened_files EXCEPT
                          ![i] = Append(@, template_path(inv[i].selected_template))]
    /\ inv' = Frame(i, [inv[i] EXCEPT !.pc = "t_except", !.exc = e])
    /\ UNCHANGED <<chat_requests, clients>>

\* return f"Selected template: ..."
ReturnTemplate(i) ==
    /\ inv[i].pc = "t_return"
    /\ inv' = Frame(i, [inv[i] EXCEPT
                          !.pc = "done", !.outcome = "returned",
                          !.value = selected_message(inv[i].selected_template,
                                                     inv[i].template_content)])
    /\ UNCHANGED <<chat_requests, opened_files, clients>>

\* Mutant of HandledError: the handler logs and re-raises.
HandledErrorReraised(f) ==
    [f EXCEPT !.pc = "done", !.outcome = "raised", !.raised = f.exc]

\* What the outer `except Exception as e` does with e.
HandledError(f) ==
    [f EXCEPT !.pc = "done", !.outcome = "returned", !.value = error_message(f.exc)]

\* except Exception as e: return f"Error processing template request: ..."
HandleError(i) ==
    /\ inv[i].pc = "t_except"
    /\ inv' = Frame(i, HandledError(inv[i]))
    /\ UNCHANGED <<chat_requests, opened_files, clients>>

\* ------------------------------- assess_code_for_enterprise_standards

\* The caller invokes the tool with a code string.
CallAssess(i, c) ==
    /\ inv[i].pc = "idle"
    /\ inv' = Frame(i, [IdleFrame EXCEPT !.pc = "a_http", !.handler = "assess",
                                         !.code = c])
    /\ UNCHANGED <<chat_requests, opened_files, clients>>

\* http_client = httpx.AsyncClient(verify=False), before the try.
AssessCreateHttpClient(i) ==
    /\ inv[i].pc = "a_http"
    /\ inv' = Frame(i, [inv[i] EXCEPT !.pc = "a_setup", !.http_client = NewClient(i)])
    /\ clients' = [clients EXCEPT ![NewClient(i)] = [creator |-> i, closers |-> << >>]]
    /\ UNCHANGED <<chat_requests, opened_files>>

\* The constructor raises outside the try: the exception leaves the handler.
AssessCreateHttpClientFails(i, e) ==
    /\ inv[i].pc = "a_http"
    /\ inv' = Frame(i, [inv[i] EXCEPT !.pc = "done", !.outcome = "raised",
                                      !.exc = e, !.raised = e])
    /\ UNCHANGED <<chat_requests, opened_files, clients>>

\* AsyncAzureOpenAI(...), AzureChatCompletion(...), kernel.add_service(...)
AssessSetupClient(i) ==
    /\ inv[i].pc = "a_setup"
    /\ inv' = Frame(i, [inv[i] EXCEPT !.pc = "a_read"])
    /\ UNCHANGED <<chat_requests, opened_files, clients>>

AssessSetupClientFails(i, e) ==
    /\ inv[i].pc = "a_setup"
    /\ inv' = Frame(i, [inv[i] EXCEPT !.pc = "a_except", !.exc = e])
    /\ UNCHANGED <<chat_requests, opened_files, clients>>

\* The path of the k-th policy document.
prompt_path(k) == PathJoin(current_dir, prompt_filenames[k])

\* Texts the k-th policy document may hold.
PromptTexts(k) == IF k = 1 THEN SystemPromptTexts ELSE {PolicyText(k)}

\* One turn of the loop over prompt_files: open and read the next document.
ReadPrompt(i, text) ==
    /\ inv[i].pc = "a_read"
    /\ text \in PromptTexts(Len(inv[i].prompts) + 1)
    /\ opened_files' = [opened_files EXCEPT
                          ![i] = Append(@, prompt_path(Len(inv[i].prompts) + 1))]
    /\ inv' = Frame(i, [inv[i] EXCEPT
                          !.pc = IF Len(inv[i].prompts) + 1 = Len(prompt_filenames)
                                 THEN "a_render" ELSE "a_read",
                          !.prompts = Append(@, text)])
    /\ UNCHANGED <<chat_requests, clients>>

\* open() of the next document raises.
ReadPromptFails(i, e) ==
    /\ inv[i].pc = "a_read"
    /\ opened_files' = [opened_files EXCEPT
                          ![i] = Append(@, prompt_path(Len(inv[i].prompts) + 1))]
    /\ inv' = Frame(i, [inv[i] EXCEPT !.pc = "a_except", !.exc = e])
    /\ UNCHANGED <<chat_requests, clients>>

\* prompts['system_prompt'].format(naming_convention=..., shared_resources=...,
\* security_standards=...)
RenderSystemPrompt(prompts) ==
    Format(prompts[1], [name \in {prompt_keys[k] : k \in 2..4} |->
                           prompts[CHOOSE k \in 2..4 : prompt_keys[k] = name]])

Render(i) ==
    /\ inv[i].pc = "a_render"
    /\ LET r == RenderSystemPrompt(inv[i].prompts)
       IN  inv' = Frame(i, IF r.ok
                           THEN [inv[i] EXCEPT !.pc = "a_send", !.system_prompt = r.text]
                           ELSE [inv[i] EXCEPT !.pc = "a_except", !.exc = r.error])
    /\ UNCHANGED <<chat_requests, opened_files, clients>>

\* The chat history of the assessment: the system prompt, then the code.
assess_request(f) ==
    [client |-> f.http_client, system |-> f.system_prompt, user |-> f.code]

\* Build the chat history and send it: get_chat_message_content is awaited.
SendAssessment(i) ==
    /\ inv[i].pc = "a_send"
    /\ chat_requests' = [chat_requests EXCEPT ![i] = Append(@, assess_request(inv[i]))]
    /\ inv' = Frame(i, [inv[i] EXCEPT !.pc = "a_await"])
    /\ UNCHANGED <<opened_files, clients>>

\* The model answers: result.content is `answer`.
ReceiveAssessment(i, answer) ==
    /\ inv[i].pc = "a_await"
    /\ inv' = Frame(i, [inv[i] EXCEPT !.pc = "a_return", !.content = answer])
    /\ UNCHANGED <<chat_requests, opened_files, clients>>

\* The model call raises.
AssessmentFails(i, e) ==
    /\ inv[i].pc = "a_await"
    /\ inv' = Frame(i, [inv[i] EXCEPT !.pc = "a_except", !.exc = e])
    /\ UNCHANGED <<chat_requests, opened_files, clients>>

\* Mutant of assess_return_value: the answer is trimmed before it is returned.
assess_return_stripped(content) == Strip(content)

\* The value of `return result.content`
assess_return_value(content) == content

\* return result.content: the value waits for the finally block.
AssessReturn(i) ==
    /\ inv[i].pc = "a_return"
    /\ inv' = Frame(i, [inv[i] EXCEPT !.pc = "a_finally",
                                      !.ret = assess_return_value(inv[i].content)])
    /\ UNCHANGED <<chat_requests, opened_files, clients>>

\* Mutant of Reraised: the handler wraps the exception in another.
Wrapped(e) == "RuntimeError"

\* Mutant of Reraised: the handler logs and swallows the exception.
Swallowed(e) == "none"

\* What `except Exception as e: logger.error(...); raise` leaves in flight.
Reraised(e) == e

AssessExcept(i) ==
    /\ inv[i].pc = "a_except"
    /\ inv' = Frame(i, [inv[i] EXCEPT !.pc = "a_finally", !.exc = Reraised(inv[i].exc)])
    /\ UNCHANGED <<chat_requests, opened_files, clients>>

\* finally: await http_client.aclose(); then the return value or the
\* exception in flight leaves the handler.
AssessClose(i) ==
    /\ inv[i].pc = "a_finally"
    /\ clients' = Closed(i)
    /\ inv' = Frame(i, IF inv[i].exc # "none"
                       THEN [inv[i] EXCEPT !.pc = "done", !.outcome = "raised",
                                           !.raised = inv[i].exc]
                       ELSE [inv[i] EXCEPT !.pc = "done", !.outcome = "returned",
                                           !.value = inv[i].ret])
    /\ UNCHANGED <<chat_requests, opened_files>>

\* aclose() itself raises: that exception leaves the handler.
AssessCloseFails(i, e) ==
    /\ inv[i].pc = "a_finally"
    /\ clients' = Closed(i)
    /\ inv' = Frame(i, [inv[i] EXCEPT !.pc = "done", !.outcome = "raised",
                                      !.exc = e, !.context = inv[i].exc,
                                      !.raised = e])
    /\ UNCHANGED <<chat_requests, opened_files>>

\* ------------------------------------------------------------ the server

\* The caller has the outcome; the frame, what it sent and opened, and its
\* transport client are gone.
Finish(i) ==
    /\ inv[i].pc = "done"
    /\ inv' = Frame(i, IdleFrame)
    /\ chat_requests' = [chat_requests EXCEPT ![i] = << >>]
    /\ opened_files' = [opened_files EXCEPT ![i] = << >>]
    /\ clients' = [c \in Invs |-> IF clients[c].creator = i THEN NoClient ELSE clients[c]]

\* No other invocation is in progress.  Spec takes the calls one at a time;
\* the frames share no variable.
Alone(i) == \A j \in Invs \ {i} : inv[j].pc = "idle"

TemplateStep(i) ==
    \/ ScanAbsent(i)
    \/ \E listing \in Listings : ScanListing(i, listing)
    \/ \E e \in ListDirErrors : ScanFails(i, e)
    \/ CheckEmpty(i)
    \/ \E endpoint \in EndpointValues, key \in ApiKeyValues : ReadConfig(i, endpoint, key)
    \/ CreateHttpClient(i)
    \/ \E e \in HttpClientErrors : CreateHttpClientFails(i, e)
    \/ SetupClient(i)
    \/ \E e \in ClientSetupErrors : SetupClientFails(i, e)
    \/ SendSelection(i)
    \/ \E answer \in SelectionAnswers : ReceiveSelection(i, answer)
    \/ \E e \in ModelCallErrors : SelectionFails(i, e)
    \/ ValidateSelection(i)
    \/ CloseClient(i)
    \/ \E e \in CloseErrors : CloseClientFails(i, e)
    \/ KeywordFallback(i)
    \/ Revalidate(i)
    \/ OpenTemplate(i)
    \/ \E e \in OpenErrors : OpenTemplateFails(i, e)
    \/ ReturnTemplate(i)
    \/ HandleError(i)

AssessStep(i) ==
    \/ AssessCreateHttpClient(i)
    \/ \E e \in HttpClientErrors : AssessCreateHttpClientFails(i, e)
    \/ AssessSetupClient(i)
    \/ \E e \in ClientSetupErrors : AssessSetupClientFails(i, e)
    \/ \E text \in SystemPromptTexts \cup {PolicyText(k) : k \in 2..4} : ReadPrompt(i, text)
    \/ \E e \in OpenErrors : ReadPromptFails(i, e)
    \/ Render(i)
    \/ SendAssessment(i)
    \/ \E answer \in AssessmentAnswers : ReceiveAssessment(i, answer)
    \/ \E e \in ModelCallErrors : AssessmentFails(i, e)
    \/ AssessReturn(i)
    \/ AssessExcept(i)
    \/ AssessClose(i)
    \/ \E e \in CloseErrors : AssessCloseFails(i, e)

\* One invocation at a time: a call is taken when no other is in progress.
Next ==
    \E i \in Invs :
        \/ Alone(i) /\ \E q \in Queries : CallTemplate(i, q)
        \/ Alone(i) /\ \E c \in Codes : CallAssess(i, c)
        \/ TemplateStep(i)
        \/ AssessStep(i)
        \/ Finish(i)

Spec == Init /\ [][Next]_vars

\* ================================================================ claims

\* The queries that contain a keyword of the list, in any letter case.
QueriesWithAny(keywords) == {q \in Queries : AnyKeyword(Lower(q), keywords)}

WebQueries == QueriesWithAny(web_keywords)

VmQueries == QueriesWithAny(vm_keywords)

AksQueries == QueriesWithAny(aks_keywords)

\* No keyword of the three sets occurs in the query.
NoKeywordMatches(query) == query \notin WebQueries \cup VmQueries \cup AksQueries

\* The template the first matching keyword set names.
NamedTemplate(query) ==
    IF query \in WebQueries THEN <<"a","z","u","r","e","-","w","e","b","a","p","p",".","b","i",
                                   "c","e","p">> (* "azure-webapp.bicep" *)
    ELSE IF query \in VmQueries THEN <<"a","z","u","r","e","-","v","m",".","b","i","c","e","p">> (* "azure-vm.bicep" *)
    ELSE <<"a","z","u","r","e","-","a","k","s",".","b","i","c","e","p">> (* "azure-aks.bicep" *)

\* The template the keyword fallback determines for a frame: the template
\* the first matching keyword set names (or the default, the first entry),
\* checked against the catalog.
FallbackChoice(f) ==
    Revalidated(IF NoKeywordMatches(f.query) THEN f.available_templates[1]
                ELSE NamedTemplate(f.query),
                f.available_templates)

\* Every path frame i has opened is the file of the fallback choice.
OpensOnlyFallbackChoice(i) ==
    \A k \in 1..Len(opened_files[i]) :
        opened_files[i][k] = PathJoin(templates_dir, FallbackChoice(inv[i]))

\* Frame i has created no transport client.
NoClientOf(i) == inv[i].http_client = 0 /\ \A c \in Invs : clients[c].creator # i

\* ---------------------------------------------------------------- C1
\* C1: in get_boilerplate_template every path given to open() is
\* templates_dir joined with a member of available_templates, and a model
\* answer (raw or trimmed) that is no member is never the file name opened.
C1_OnlyCatalogFilesOpened ==
    \A i \in Invs : inv[i].handler = "template" =>
        \A k \in 1..Len(opened_files[i]) :
            /\ \E n \in 1..Len(inv[i].available_templates) :
                   opened_files[i][k] =
                       PathJoin(templates_dir, inv[i].available_templates[n])
            /\ \A a \in {inv[i].content, Strip(inv[i].content)} :
                   (inv[i].content # None /\ ~InList(a, inv[i].available_templates))
                       => opened_files[i][k] # PathJoin(templates_dir, a)

\* A model answer outside the catalog was received and a template was then
\* opened and returned.
C1_Witness ==
    \E i \in Invs :
        /\ inv[i].handler = "template" /\ inv[i].pc = "done"
        /\ inv[i].content # None
        /\ ~InList(Strip(inv[i].content), inv[i].available_templates)
        /\ Len(opened_files[i]) = 1
        /\ inv[i].exc = "none"

\* ---------------------------------------------------------------- C2
\* The validation of the model's answer has run in frame i.
AnswerValidated(i) ==
    /\ inv[i].handler = "template"
    /\ inv[i].content # None
    /\ inv[i].pc # "t_validate"

\* After a rejected answer: selected_template is None until the keyword
\* matching runs, then the keyword match, then the fallback choice, and only
\* the fallback choice is opened.
AnswerDiscarded(i) ==
    /\ inv[i].pc \in {"t_finally", "t_keyword"} => inv[i].selected_template = None
    /\ inv[i].pc = "t_revalidate" =>
           inv[i].selected_template =
               KeywordMatch(inv[i].query, inv[i].available_templates)
    /\ inv[i].pc \in {"t_open", "t_return"} =>
           inv[i].selected_template = FallbackChoice(inv[i])
    /\ OpensOnlyFallbackChoice(i)

\* C2 as stated: every model response that is not an exact, case-sensitive
\* match to a catalog filename is discarded and the keyword fallback selects.
C2_Original ==
    \A i \in Invs :
        (AnswerValidated(i) /\ ~InList(inv[i].content, inv[i].available_templates))
            => AnswerDiscarded(i)

\* C2, amended: every model response that after trimming surrounding
\* whitespace is not an exact, case-sensitive match to a catalog filename is
\* discarded and the keyword fallback selects.
C2_TrimmedMismatchDiscarded ==
    \A i \in Invs :
        (AnswerValidated(i)
            /\ ~InList(Strip(inv[i].content), inv[i].available_templates))
            => AnswerDiscarded(i)

\* An answer that differs from a catalog filename only in letter case was
\* rejected and the fallback's template is about to be returned.
C2_Witness ==
    \E i \in Invs :
        /\ AnswerValidated(i) /\ inv[i].pc = "t_return"
        /\ ~InList(inv[i].content, inv[i].available_templates)
        /\ InList(Lower(inv[i].content), inv[i].available_templates)
        /\ inv[i].selected_template # Lower(inv[i].content)

\* ---------------------------------------------------------------- C3
\* The configuration frame i has read is unset, empty or a placeholder.
Unconfigured(i) ==
    /\ inv[i].config_read
    /\ \/ inv[i].azure_endpoint \in {None, << >>, <<"y","o","u","r","_","e","n","d","p","o","i","n","t","_",
                                                    "h","e","r","e">> (* "your_endpoint_here" *)}
       \/ inv[i].azure_key \in {None, << >>, <<"y","o","u","r","_","a","p","i","_","k","e","y","_","h",
                                               "e","r","e">> (* "your_api_key_here" *)}

\* C3: with AZURE_OPENAI_ENDPOINT or AZURE_OPENAI_API_KEY unset, empty or a
\* placeholder, get_boilerplate_template creates no client, sends no chat
\* request, and selects by keyword matching or the first entry only.
C3_UnconfiguredNeverAsksModel ==
    \A i \in Invs :
        (inv[i].handler = "template" /\ Unconfigured(i)) =>
            /\ NoClientOf(i)
            /\ chat_requests[i] = << >>
            /\ inv[i].content = None
            /\ inv[i].pc = "t_keyword" => inv[i].selected_template = None
            /\ inv[i].pc = "t_revalidate" =>
                   inv[i].selected_template =
                       KeywordMatch(inv[i].query, inv[i].available_templates)
            /\ inv[i].pc \in {"t_open", "t_return", "t_except", "done"} =>
                   inv[i].selected_template = FallbackChoice(inv[i])
            /\ OpensOnlyFallbackChoice(i)

\* A real key with the placeholder endpoint: a template was returned.
C3_Witness ==
    \E i \in Invs :
        /\ inv[i].handler = "template" /\ inv[i].pc = "done"
        /\ inv[i].azure_endpoint = <<"y","o","u","r","_","e","n","d","p","o","i","n","t","_","h",
                                     "e","r","e">> (* "your_endpoint_here" *)
        /\ inv[i].azure_key = <<"k","1">>
        /\ Len(opened_files[i]) = 1
        /\ inv[i].outcome = "returned"

\* ---------------------------------------------------------------- C4
\* The scan of frame i has ended without an exception and found the
\* directory absent or without a name ending in ".bicep".
NothingDiscovered(i) ==
    /\ inv[i].handler = "template"
    /\ inv[i].pc = "t_check_empty"
    /\ \/ inv[i].listing = None
       \/ \A k \in 1..Len(inv[i].listing) : ~EndsWith(inv[i].listing[k], <<".","b","i","c","e","p">> (* ".bicep" *))

\* C4: with an empty catalog the next step of the handler returns a string
\* containing "No templates found": it raises nothing, and has read no
\* configuration, created no client, sent no chat request and opened no file.
C4_EmptyCatalogMessage ==
    [][\A i \in Invs : (NothingDiscovered(i) /\ inv'[i] # inv[i]) =>
          /\ inv'[i].pc = "done"
          /\ inv'[i].outcome = "returned"
          /\ Contains(inv'[i].value, <<"N","o"," ","t","e","m","p","l","a","t","e","s"," ","f",
                                       "o","u","n","d">> (* "No templates found" *))
          /\ inv'[i].exc = "none" /\ inv'[i].raised = "none"
          /\ ~inv'[i].config_read
          /\ inv'[i].http_client = 0
          /\ \A c \in Invs : clients'[c].creator # i
          /\ chat_requests'[i] = << >>
          /\ opened_files'[i] = << >>]_vars

\* The scan found nothing and the message was returned.
C4_Witness ==
    \E i \in Invs :
        /\ inv[i].handler = "template" /\ inv[i].pc = "done"
        /\ inv[i].available_templates = << >>
        /\ inv[i].exc = "none"
        /\ Contains(inv[i].value, <<"N","o"," ","t","e","m","p","l","a","t","e","s"," ","f","o",
                                    "u","n","d">> (* "No templates found" *))

C6_ClientClosedExactlyOnce ==
    /\ \A c \in Invs :
           /\ Len(clients[c].closers) <= 1
           /\ \A k \in 1..Len(clients[c].closers) :
                  clients[c].closers[k] = clients[c].creator
           /\ (clients[c].creator # 0 /\ inv[clients[c].creator].pc = "done")
                  => Len(clients[c].closers) = 1
    /\ \A i \in Invs :
           inv[i].http_client # 0 => clients[inv[i].http_client].creator = i

\* Building the model client failed in get_boilerplate_template and the
\* invocation has ended with its client closed once.
C6_Witness ==
    \E i \in Invs :
        /\ inv[i].handler = "template" /\ inv[i].pc = "done"
        /\ inv[i].exc \in ClientSetupErrors
        /\ clients[inv[i].http_client] = [creator |-> i, closers |-> <<i>>]

\* ---------------------------------------------------------------- C7
\* The model call of the assessment in frame i has succeeded.
AssessmentAnswered(i) == inv[i].handler = "assess" /\ inv[i].content # None

\* Exactly one chat request was sent, with the raw code as the user message.
OneRequestWithRawCode(i) ==
    /\ Len(chat_requests[i]) = 1
    /\ chat_requests[i][1].user = inv[i].code

\* C7 as stated: when the policy documents load and the model call succeeds,
\* one chat request with the raw code is sent and the invocation returns
\* exactly the model's text.
C7_Original ==
    \A i \in Invs : AssessmentAnswered(i) =>
        /\ OneRequestWithRawCode(i)
        /\ inv[i].pc = "done" =>
               (inv[i].outcome = "returned" /\ inv[i].value = inv[i].content)

\* C7, amended: when the policy documents load, the model call succeeds and
\* closing the transport client does not raise, one chat request with the raw
\* code is sent and the invocation returns exactly the model's text; when
\* aclose() raises, that exception leaves the handler instead.
C7_ReturnsModelTextVerbatim ==
    \A i \in Invs : AssessmentAnswered(i) =>
        /\ OneRequestWithRawCode(i)
        /\ (inv[i].pc = "done" /\ inv[i].exc \notin CloseErrors) =>
               (inv[i].outcome = "returned" /\ inv[i].value = inv[i].content)
        /\ (inv[i].pc = "done" /\ inv[i].exc \in CloseErrors) =>
               (inv[i].outcome = "raised" /\ inv[i].raised = inv[i].exc)

\* An answer with surrounding whitespace came back unchanged for a code
\* string with surrounding whitespace.
C7_Witness ==
    \E i \in Invs :
        /\ AssessmentAnswered(i) /\ inv[i].pc = "done"
        /\ inv[i].outcome = "returned"
        /\ inv[i].value # Strip(inv[i].value)
        /\ inv[i].code # Strip(inv[i].code)

\* ---------------------------------------------------------------- C8
\* Exceptions raised before the chat request is sent.
BuildErrors ==
    HttpClientErrors \cup ClientSetupErrors \cup OpenErrors
        \cup {"KeyError", "IndexError", "ValueError"}

\* C8: in assess_code_for_enterprise_standards an exception raised while
\* building the request or calling the model leaves the handler: the
\* invocation returns a result only when nothing was raised and the model
\* answered, it ends raising the exception in flight (that exception, or the
\* one aclose() raised on top of it), at most one chat request is sent, and
\* none when the failure came before the model call.
C8_AssessFailuresPropagate ==
    \A i \in Invs : inv[i].handler = "assess" =>
        /\ Len(chat_requests[i]) <= 1
        /\ (inv[i].pc = "done" /\ inv[i].outcome = "returned") =>
               (inv[i].exc = "none" /\ inv[i].content # None)
        /\ (inv[i].pc = "done" /\ inv[i].exc # "none") =>
               /\ inv[i].outcome = "raised"
               /\ inv[i].value = None
               /\ inv[i].raised = inv[i].exc
        /\ inv[i].context # "none" => inv[i].exc \in CloseErrors
        /\ (inv[i].exc \in BuildErrors \/ inv[i].context \in BuildErrors) =>
               chat_requests[i] = << >>

\* The model call raised and that exception left the handler after one request.
C8_Witness ==
    \E i \in Invs :
        /\ inv[i].handler = "assess" /\ inv[i].pc = "done"
        /\ inv[i].raised \in ModelCallErrors
        /\ Len(chat_requests[i]) = 1

\* ---------------------------------------------------------------- C9
\* open() of a policy document has raised in frame i: more documents were
\* opened than read.
PromptReadFailed(i) ==
    inv[i].handler = "assess" /\ Len(opened_files[i]) > Len(inv[i].prompts)

\* C9 as stated: a missing or unreadable policy document makes the
\* invocation fail with a ConfigurationError.
C9_Original ==
    \A i \in Invs : (PromptReadFailed(i) /\ inv[i].pc = "done") =>
        (inv[i].outcome = "raised" /\ inv[i].raised = "ConfigurationError")

\* C9, amended: a missing or unreadable policy document makes the invocation
\* fail with the exception open() raised (FileNotFoundError, PermissionError),
\* re-raised unchanged, and no chat request is sent; when aclose() raises in
\* the cleanup, its exception leaves the handler with the file error as
\* context.
C9_PromptReadErrorPropagates ==
    \A i \in Invs : (PromptReadFailed(i) /\ inv[i].pc = "done") =>
        /\ inv[i].outcome = "raised"
        /\ chat_requests[i] = << >>
        /\ \/ inv[i].raised \in OpenErrors /\ inv[i].context = "none"
           \/ inv[i].raised \in CloseErrors /\ inv[i].context \in OpenErrors

\* The third policy document was missing and FileNotFoundError left the handler.
C9_Witness ==
    \E i \in Invs :
        /\ PromptReadFailed(i) /\ inv[i].pc = "done"
        /\ Len(inv[i].prompts) = 2
        /\ inv[i].raised = "FileNotFoundError"

\* --------------------------------------------------------------- C10
\* The model could not be used for the selection of frame i, and nothing
\* else has failed.
ModelUnusable(i) ==
    /\ inv[i].handler = "template"
    /\ inv[i].config_read
    /\ inv[i].context = "none"
    /\ \/ Unconfigured(i) /\ inv[i].exc = "none"
       \/ inv[i].exc \in ClientSetupErrors \cup ModelCallErrors
       \/ /\ inv[i].content # None
          /\ ~InList(Strip(inv[i].content), inv[i].available_templates)
          /\ inv[i].exc = "none"

\* C10 as stated: whenever the model is unconfigured, unavailable (client
\* set-up or chat request raises) or answers invalidly, the handler returns
\* the contents of the template the keyword fallback selects.
C10_FallbackWheneverModelUnusable ==
    \A i \in Invs : (ModelUnusable(i) /\ inv[i].pc = "done") =>
        /\ inv[i].outcome = "returned"
        /\ inv[i].value =
               selected_message(FallbackChoice(inv[i]),
                                FileText(PathJoin(templates_dir, FallbackChoice(inv[i]))))


\* --------------------------------------------------------------- C11
\* The model's answer has been validated in frame i and, trimmed, is a
\* member of the catalog.
AnswerAccepted(i) ==
    /\ AnswerValidated(i)
    /\ InList(Strip(inv[i].content), inv[i].available_templates)

\* 'Selected template: <filename>', a blank line, the contents of the file.
SelectedResult(filename) ==
    <<"S","e","l","e","c","t","e","d"," ","t","e","m","p","l","a","t","e",":"," ">> (* "Selected template: " *) \o filename \o <<"\n", "\n">>
        \o FileText(PathJoin(templates_dir, filename))

\* From the validation on, frame i has selected the trimmed answer and has
\* opened no other file.
SelectsAnswer(i) ==
    /\ inv[i].selected_template = Strip(inv[i].content)
    /\ \A k \in 1..Len(opened_files[i]) :
           opened_files[i][k] = PathJoin(templates_dir, Strip(inv[i].content))

\* C11 as stated: when the model's trimmed answer is a member of the catalog,
\* the handler selects that filename whatever the query and returns
\* 'Selected template: <filename>', a blank line and the file's contents.
C11_Original ==
    \A i \in Invs : AnswerAccepted(i) =>
        /\ SelectsAnswer(i)
        /\ inv[i].pc = "done" =>
               (inv[i].outcome = "returned"
                   /\ inv[i].value = SelectedResult(Strip(inv[i].content)))

\* C11, amended: when the model's trimmed answer is a member of the catalog,
\* the handler selects that filename whatever the query, opens no other
\* file, and returns 'Selected template: <filename>', a blank line and the
\* file's contents unless aclose() or open() raises; then it returns the
\* error string of that exception.
C11_AcceptedAnswerSelected ==
    \A i \in Invs : AnswerAccepted(i) =>
        /\ SelectsAnswer(i)
        /\ inv[i].pc = "done" =>
               /\ inv[i].outcome = "returned"
               /\ inv[i].exc = "none" =>
                      inv[i].value = SelectedResult(Strip(inv[i].content))
               /\ inv[i].exc # "none" =>
                      /\ inv[i].exc \in CloseErrors \cup OpenErrors
                      /\ inv[i].value =
                             <<"E","r","r","o","r"," ","p","r","o","c","e","s","s","i","n","g",
                               " ","t","e","m","p","l","a","t","e"," ","r","e","q","u","e","s",
                               "t",":"," ">> (* "Error processing template request: " *)
                                 \o ExceptionText(inv[i].exc)

\* An answer with surrounding whitespace that names another template than
\* the query's keywords do was accepted and its file returned.
C11_Witness ==
    \E i \in Invs :
        /\ AnswerAccepted(i) /\ inv[i].pc = "done" /\ inv[i].exc = "none"
        /\ inv[i].content # Strip(inv[i].content)
        /\ KeywordMatch(inv[i].query, inv[i].available_templates)
               # Strip(inv[i].content)
        /\ InList(KeywordMatch(inv[i].query, inv[i].available_templates),
                  inv[i].available_templates)

\* ------------------------------------------------- keyword fallback
\* The keyword matching (l.244-257) has run in frame i and the selection is
\* final: the model was not asked, or its answer was discarded, and the
\* frame is past the second validation.
FallbackActive(i) ==
    /\ inv[i].handler = "template"
    /\ inv[i].pc \in {"t_open", "t_return"} \/ Len(opened_files[i]) > 0
    /\ \/ ~Configured(inv[i].azure_endpoint, inv[i].azure_key)
       \/ /\ inv[i].content # None
          /\ ~InList(Strip(inv[i].content), inv[i].available_templates)

\* The query contains the word, in any letter case.
HasWord(query, word) == Contains(Lower(query), word)

\* The queries that contain 'kubernetes', and those that contain 'virtual
\* machine', in any letter case.
KubernetesQueries == {q \in Queries : HasWord(q, <<"k","u","b","e","r","n","e","t","e","s">> (* "kubernetes" *))}

VirtualMachineQueries == {q \in Queries : HasWord(q, <<"v","i","r","t","u","a","l"," ","m","a","c","h","i","n",
                                                       "e">> (* "virtual machine" *))}

\* Every file frame i has opened is the template `filename`.
OpensOnly(i, filename) ==
    \A k \in 1..Len(opened_files[i]) :
        opened_files[i][k] = PathJoin(templates_dir, filename)

\* --------------------------------------------------------------- C12
\* C12 as stated: for every non-empty catalog, with the keyword fallback
\* active, a query containing 'kubernetes' selects azure-aks.bicep.
C12_Original ==
    \A i \in Invs :
        (FallbackActive(i) /\ inv[i].query \in KubernetesQueries) =>
            inv[i].selected_template = <<"a","z","u","r","e","-","a","k","s",".","b","i","c","e",
                                         "p">> (* "azure-aks.bicep" *)

\* C12, amended: for every catalog that contains azure-aks.bicep, with the
\* keyword fallback active, a query that contains 'kubernetes' (in any letter
\* case) and none of the web or VM keywords selects azure-aks.bicep, and no
\* other file is opened.
C12_KubernetesSelectsAks ==
    \A i \in Invs :
        (/\ FallbackActive(i)
         /\ inv[i].query \in KubernetesQueries \ (WebQueries \cup VmQueries)
         /\ InList(<<"a","z","u","r","e","-","a","k","s",".","b","i","c","e","p">> (* "azure-aks.bicep" *), inv[i].available_templates)) =>
            /\ inv[i].selected_template = <<"a","z","u","r","e","-","a","k","s",".","b","i","c","e",
                                            "p">> (* "azure-aks.bicep" *)
            /\ OpensOnly(i, <<"a","z","u","r","e","-","a","k","s",".","b","i","c","e","p">> (* "azure-aks.bicep" *))

\* The upper-case query 'KUBERNETES' selected azure-aks.bicep from a catalog
\* whose first entry is another template.
C12_Witness ==
    \E i \in Invs :
        /\ FallbackActive(i) /\ inv[i].pc = "done"
        /\ inv[i].query = <<"K","U","B","E","R","N","E","T","E","S">> (* "KUBERNETES" *)
        /\ inv[i].available_templates[1] # <<"a","z","u","r","e","-","a","k","s",".","b","i","c","e",
                                             "p">> (* "azure-aks.bicep" *)
        /\ inv[i].value = SelectedResult(<<"a","z","u","r","e","-","a","k","s",".","b","i","c","e",
                                           "p">> (* "azure-aks.bicep" *))

\* --------------------------------------------------------------- C13
\* C13 as stated: for every non-empty catalog, with the keyword fallback
\* active, a query containing 'virtual machine' selects azure-vm.bicep.
C13_Original ==
    \A i \in Invs :
        (FallbackActive(i) /\ inv[i].query \in VirtualMachineQueries) =>
            inv[i].selected_template = <<"a","z","u","r","e","-","v","m",".","b","i","c","e","p">> (* "azure-vm.bicep" *)

\* C13, amended: for every catalog that contains azure-vm.bicep, with the
\* keyword fallback active, a query that contains 'virtual machine' (in any
\* letter case) and none of the web keywords selects azure-vm.bicep, and no
\* other file is opened.
C13_VirtualMachineSelectsVm ==
    \A i \in Invs :
        (/\ FallbackActive(i)
         /\ inv[i].query \in VirtualMachineQueries \ WebQueries
         /\ InList(<<"a","z","u","r","e","-","v","m",".","b","i","c","e","p">> (* "azure-vm.bicep" *), inv[i].available_templates)) =>
            /\ inv[i].selected_template = <<"a","z","u","r","e","-","v","m",".","b","i","c","e","p">> (* "azure-vm.bicep" *)
            /\ OpensOnly(i, <<"a","z","u","r","e","-","v","m",".","b","i","c","e","p">> (* "azure-vm.bicep" *))

\* The query 'a Virtual Machine' selected azure-vm.bicep from a catalog whose
\* first entry is another template.
C13_Witness ==
    \E i \in Invs :
        /\ FallbackActive(i) /\ inv[i].pc = "done"
        /\ inv[i].query = <<"a"," ","V","i","r","t","u","a","l"," ","M","a","c","h","i","n","e">> (* "a Virtual Machine" *)
        /\ inv[i].available_templates[1] # <<"a","z","u","r","e","-","v","m",".","b","i","c","e","p">> (* "azure-vm.bicep" *)
        /\ inv[i].value = SelectedResult(<<"a","z","u","r","e","-","v","m",".","b","i","c","e","p">> (* "azure-vm.bicep" *))

\* --------------------------------------------------------------- C14
\* needle occurs in hay as a whole (the result includes the contents).
Includes(hay, needle) ==
    \E k \in 0..(Len(hay) - Len(needle)) :
        SubSeq(hay, k + 1, k + Len(needle)) = needle

\* The keyword fallback is active for the query 'I need a web application'.
WebApplicationAsked(i) ==
    FallbackActive(i) /\ inv[i].query = <<"I"," ","n","e","e","d"," ","a"," ","w","e","b"," ","a",
                                          "p","p","l","i","c","a","t","i","o","n">> (* "I need a web application" *)

\* C14 as stated: for every non-empty catalog, with the keyword fallback
\* active, the query 'I need a web application' selects azure-webapp.bicep
\* and the result includes that file's full contents.
C14_Original ==
    \A i \in Invs : WebApplicationAsked(i) =>
        /\ inv[i].selected_template = <<"a","z","u","r","e","-","w","e","b","a","p","p",".","b",
                                        "i","c","e","p">> (* "azure-webapp.bicep" *)
        /\ inv[i].pc = "done" =>
               /\ inv[i].outcome = "returned"
               /\ Includes(inv[i].value,
                           FileText(PathJoin(templates_dir, <<"a","z","u","r","e","-","w","e","b","a","p","p",".","b",
                                                              "i","c","e","p">> (* "azure-webapp.bicep" *))))

\* C14, amended: for every catalog that contains azure-webapp.bicep, with the
\* keyword fallback active, the query 'I need a web application' selects
\* azure-webapp.bicep and opens no other file; the result is 'Selected
\* template: azure-webapp.bicep', a blank line and the file's full contents
\* unless open() raises, and then the error string of that exception.
C14_WebApplicationSelectsWebapp ==
    \A i \in Invs :
        (WebApplicationAsked(i)
            /\ InList(<<"a","z","u","r","e","-","w","e","b","a","p","p",".","b","i","c","e","p">> (* "azure-webapp.bicep" *), inv[i].available_templates)) =>
            /\ inv[i].selected_template = <<"a","z","u","r","e","-","w","e","b","a","p","p",".","b",
                                            "i","c","e","p">> (* "azure-webapp.bicep" *)
            /\ OpensOnly(i, <<"a","z","u","r","e","-","w","e","b","a","p","p",".","b","i","c","e",
                              "p">> (* "azure-webapp.bicep" *))
            /\ inv[i].pc = "done" =>
                   /\ inv[i].outcome = "returned"
                   /\ inv[i].exc = "none" =>
                          /\ inv[i].value = SelectedResult(<<"a","z","u","r","e","-","w","e","b","a","p","p",".","b",
                                                             "i","c","e","p">> (* "azure-webapp.bicep" *))
                          /\ Includes(inv[i].value,
                                 FileText(PathJoin(templates_dir,
                                                   <<"a","z","u","r","e","-","w","e","b","a","p","p",".","b",
                                                     "i","c","e","p">> (* "azure-webapp.bicep" *))))
                   /\ inv[i].exc # "none" =>
                          /\ inv[i].exc \in OpenErrors
                          /\ inv[i].value =
                                 <<"E","r","r","o","r"," ","p","r","o","c","e","s","s","i","n",
                                   "g"," ","t","e","m","p","l","a","t","e"," ","r","e","q","u",
                                   "e","s","t",":"," ">> (* "Error processing template request: " *)
                                     \o ExceptionText(inv[i].exc)

\* 'I need a web application' returned azure-webapp.bicep from a catalog
\* whose first entry is another template, after the model's answer was
\* discarded.
C14_Witness ==
    \E i \in Invs :
        /\ WebApplicationAsked(i) /\ inv[i].pc = "done" /\ inv[i].exc = "none"
        /\ inv[i].content # None
        /\ inv[i].available_templates[1] # <<"a","z","u","r","e","-","w","e","b","a","p","p",".","b",
                                             "i","c","e","p">> (* "azure-webapp.bicep" *)
        /\ inv[i].selected_template = <<"a","z","u","r","e","-","w","e","b","a","p","p",".","b",
                                        "i","c","e","p">> (* "azure-webapp.bicep" *)

\* --------------------------------------------------------------- C16
\* The template the matching keyword set names is not in the catalog.
NamedTemplateMissing(query, available_templates) ==
    /\ ~NoKeywordMatches(query)
    /\ ~InList(NamedTemplate(query), available_templates)

\* C16: in the keyword fallback, when no keyword set matches the query or
\* the template named by the matching set is not in the catalog, the selected
\* template is the first catalog entry, and that is the only file opened.
C16_DefaultIsFirstEntry ==
    \A i \in Invs :
        (/\ FallbackActive(i)
         /\ \/ NoKeywordMatches(inv[i].query)
            \/ NamedTemplateMissing(inv[i].query, inv[i].available_templates)) =>
            /\ inv[i].selected_template = inv[i].available_templates[1]
            /\ OpensOnly(i, inv[i].available_templates[1])
            /\ (inv[i].pc = "done" /\ inv[i].exc = "none") =>
                   inv[i].value = SelectedResult(inv[i].available_templates[1])

\* A query naming a template that is missing from a catalog of two or more
\* entries returned the first entry.
C16_Witness ==
    \E i \in Invs :
        /\ FallbackActive(i) /\ inv[i].pc = "done" /\ inv[i].exc = "none"
        /\ NamedTemplateMissing(inv[i].query, inv[i].available_templates)
        /\ Len(inv[i].available_templates) >= 2
        /\ inv[i].value = SelectedResult(inv[i].available_templates[1])

\* ------------------------------------------- concurrent invocations
\* The server runs each tool call as a coroutine on one event loop: a second
\* invocation may start and run while a first waits.  SpecConc lets the
\* steps of the frames interleave at every statement (a superset of the
\* interleavings at the awaits), over smaller inputs than Spec.

ConcQueries == {<<"K","U","B","E","R","N","E","T","E","S">> (* "KUBERNETES" *)}

ConcListings == {<<webapp_bicep, aks_bicep>>}

ConcEndpointValues == {None, <<"h","t","t","p","s",":","/","/","e">> (* "https://e" *)}

ConcApiKeyValues == {<<"k","1">>}

ConcSelectionAnswers ==
    {webapp_bicep,
     <<"n","o","t","e","s",".","m","d">> (* "notes.md" *)}

ConcCodes == {<<"x"," ","="," ","1">> (* "x = 1" *)}

ConcAssessmentAnswers == {<<"C","o","m","p","l","i","a","n","t">> (* "Compliant" *)}

ConcSystemPromptTexts == {<<"S"," ","{","n","a","m","i","n","g","_","c","o","n","v","e","n","t",
                            "i","o","n","}","{","s","h","a","r","e","d","_","r","e","s","o","u",
                            "r","c","e","s","}","{","s","e","c","u","r","i","t","y","_","s","t",
                            "a","n","d","a","r","d","s","}">> (* "S {naming_convention}{shared_resources}{security_standards}" *)}

ConcOpenErrors == {"FileNotFoundError"}

ConcTemplateStep(i) ==
    \/ ScanAbsent(i)
    \/ \E listing \in ConcListings : ScanListing(i, listing)
    \/ \E e \in ListDirErrors : ScanFails(i, e)
    \/ CheckEmpty(i)
    \/ \E endpoint \in ConcEndpointValues, key \in ConcApiKeyValues :
           ReadConfig(i, endpoint, key)
    \/ CreateHttpClient(i)
    \/ \E e \in HttpClientErrors : CreateHttpClientFails(i, e)
    \/ SetupClient(i)
    \/ \E e \in ClientSetupErrors : SetupClientFails(i, e)
    \/ SendSelection(i)
    \/ \E answer \in ConcSelectionAnswers : ReceiveSelection(i, answer)
    \/ \E e \in ModelCallErrors : SelectionFails(i, e)
    \/ ValidateSelection(i)
    \/ CloseClient(i)
    \/ \E e \in CloseErrors : CloseClientFails(i, e)
    \/ KeywordFallback(i)
    \/ Revalidate(i)
    \/ OpenTemplate(i)
    \/ \E e \in ConcOpenErrors : OpenTemplateFails(i, e)
    \/ ReturnTemplate(i)
    \/ HandleError(i)

ConcAssessStep(i) ==
    \/ AssessCreateHttpClient(i)
    \/ \E e \in HttpClientErrors : AssessCreateHttpClientFails(i, e)
    \/ AssessSetupClient(i)
    \/ \E e \in ClientSetupErrors : AssessSetupClientFails(i, e)
    \/ \E text \in ConcSystemPromptTexts \cup {PolicyText(k) : k \in 2..4} :
           ReadPrompt(i, text)
    \/ \E e \in ConcOpenErrors : ReadPromptFails(i, e)
    \/ Render(i)
    \/ SendAssessment(i)
    \/ \E answer \in ConcAssessmentAnswers : ReceiveAssessment(i, answer)
    \/ \E e \in ModelCallErrors : AssessmentFails(i, e)
    \/ AssessReturn(i)
    \/ AssessExcept(i)
    \/ AssessClose(i)
    \/ \E e \in CloseErrors : AssessCloseFails(i, e)

\* A call is taken whenever a frame is free, whatever the others are doing.
NextConc ==
    \E i \in Invs :
        \/ \E q \in ConcQueries : CallTemplate(i, q)
        \/ \E c \in ConcCodes : CallAssess(i, c)
        \/ ConcTemplateStep(i)
        \/ ConcAssessStep(i)
        \/ Finish(i)

SpecConc == Init /\ [][NextConc]_vars

\* --------------------------------------------------------------- C15
\* Frame i holds, sends through and closes only a client it created, and
\* no other frame has that client.
OwnClientOnly(i) ==
    /\ inv[i].http_client # 0 =>
           /\ clients[inv[i].http_client].creator = i
           /\ \A j \in Invs \ {i} : inv[j].http_client # inv[i].http_client
    /\ \A k \in 1..Len(chat_requests[i]) :
           /\ chat_requests[i][k].client = inv[i].http_client
           /\ chat_requests[i][k].client # 0
    /\ \A c \in Invs : \A k \in 1..Len(clients[c].closers) :
           clients[c].closers[k] = i => clients[c].creator = i

\* The template a finished template frame has chosen, from its own catalog,
\* configuration, answer and query.
OwnChoice(f) ==
    IF /\ Configured(f.azure_endpoint, f.azure_key)
       /\ f.content # None
       /\ InList(Strip(f.content), f.available_templates)
    THEN Strip(f.content)
    ELSE FallbackChoice(f)

\* The outcome of a finished frame is the one its own inputs determine: its
\* query or code, catalog, configuration, the model's answer to it and the
\* failure of one of its own calls.
OwnResult(f) ==
    IF f.handler = "template"
    THEN /\ f.outcome = "returned"
         /\ f.value =
               IF f.exc # "none"
               THEN <<"E","r","r","o","r"," ","p","r","o","c","e","s","s","i","n","g"," ","t","e",
                      "m","p","l","a","t","e"," ","r","e","q","u","e","s","t",":"," ">> (* "Error processing template request: " *)
                        \o ExceptionText(f.exc)
               ELSE IF f.available_templates = << >>
               THEN <<"N","o"," ","t","e","m","p","l","a","t","e","s"," ","f","o","u","n","d",".",
                      " ","P","l","e","a","s","e"," ","e","n","s","u","r","e"," ","t","h","e"," ",
                      "t","e","m","p","l","a","t","e","s"," ","d","i","r","e","c","t","o","r","y",
                      " ","c","o","n","t","a","i","n","s"," ",".","b","i","c","e","p"," ","f","i",
                      "l","e","s",".">> (* "No templates found. Please ensure the templates directory contains .bicep files." *)
               ELSE SelectedResult(OwnChoice(f))
    ELSE IF f.exc # "none"
         THEN f.outcome = "raised" /\ f.raised = f.exc
         ELSE f.outcome = "returned" /\ f.value = f.content

\* A step of frame i leaves every other frame, what it has sent and opened,
\* and its transport client as they were.
NoInterference ==
    \A i \in Invs : inv'[i] # inv[i] =>
        \A j \in Invs \ {i} :
            /\ inv'[j] = inv[j]
            /\ chat_requests'[j] = chat_requests[j]
            /\ opened_files'[j] = opened_files[j]
            /\ inv[j].http_client # 0 =>
                   clients'[inv[j].http_client] = clients[inv[j].http_client]

\* C15: under any interleaving of invocations of the two handlers, each
\* invocation uses and closes only the transport client it created, its
\* result is determined by its own inputs, and no step of one invocation
\* changes the state of another.
C15_InvocationsIsolated ==
    /\ [](\A i \in Invs :
            /\ OwnClientOnly(i)
            /\ inv[i].pc = "done" => OwnResult(inv[i]))
    /\ [][NoInterference]_vars

\* Two invocations overlap: frame 1 has returned a template chosen by the
\* model and closed its client, while frame 2, an assessment that started
\* before frame 1's answer arrived, still waits for its own answer with its
\* own client open.
C15_Witness ==
    /\ inv[1].handler = "template" /\ inv[1].pc = "done"
    /\ inv[1].content # None /\ inv[1].exc = "none"
    /\ clients[inv[1].http_client].closers = <<1>>
    /\ inv[2].handler = "assess" /\ inv[2].pc = "a_await"
    /\ inv[2].http_client # 0
    /\ inv[2].http_client # inv[1].http_client
    /\ clients[inv[2].http_client].closers = << >>
    /\ Len(chat_requests[1]) = 1 /\ Len(chat_requests[2]) = 1
====
